---- MODULE Spec2Model ----
(***************************************************************************)
(* Model of validate::password_validator (src/main.cpp) and of the example *)
(* driver main().                                                          *)
(*                                                                         *)
(* A std::string_view is a sequence of char values; a char is its signed   *)
(* 8-bit value (-128..127).  A stored validator (the closure that rule()   *)
(* emplaces) is the record of its two captures, [rule, msg].  A            *)
(* mitama::result<std::monostate, E> is [tag |-> "Ok"] or                  *)
(* [tag |-> "Err", err |-> e].                                             *)
(*                                                                         *)
(* Three specifications:                                                   *)
(*   Spec      one caller issuing rule() and validate() calls, chained or  *)
(*             separate, each call one atomic step;                        *)
(*   SpecConc  a validator that is built and then used by two callers      *)
(*             whose validate() calls interleave, one shared read per step;*)
(*   SpecMain  main(): the three example rules registered in program order *)
(*             and one validate() call on an input string.                 *)
(***************************************************************************)
EXTENDS Integers, Sequences, FiniteSets, TLC

VARIABLES
  validators,   \* validators[o]: member `validators` of password_validator object o
  ret,          \* the reference returned by the last rule() call (NoRef before)
  registered,   \* history: the rules passed to rule() by the caller, in call order
  password,     \* argument of the last validate() call (<<>> before)
  res,          \* value returned by the last validate() call (NoResult before)
  op,           \* the member function that ran last: "none", "rule", "validate"
  since,        \* history: number of rule() calls since the last validate() call
  between,      \* history: when the last call was validate(s) and the validate()
                \* call before it had the same argument, the number of rule()
                \* calls between the two; -1 otherwise
  pc,           \* SpecConc: pc[t], position of caller t inside validate()
  arg,          \* SpecConc: arg[t], parameter `password` of caller t's call
  it,           \* SpecConc: it[t], iterator of std::transform over `validators`
  results,      \* SpecConc: results[t], local vector `results` of caller t's call
  outcome,      \* SpecConc: outcome[t], value returned to caller t
  evalLog,      \* SpecConc: history, indices of the validators caller t invoked
  mainpc        \* SpecMain: position of main()

vars == <<validators, ret, registered, password, res, op, since, between,
          pc, arg, it, results, outcome, evalLog, mainpc>>

seqVars  == <<ret, registered, password, res, op, since, between>>
concVars == <<pc, arg, it, results, outcome, evalLog>>

-----------------------------------------------------------------------------
(* Bounds of the model *)

\* longest rule list a caller registers in Spec and SpecConc
MaxRules == 3
\* longest tail appended to a prefix to form an input of SpecMain
MaxTail == 2

-----------------------------------------------------------------------------
(* Strings *)

\* "hogehogeho", the literal main() validates
Hogehogeho == <<104, 111, 103, 101, 104, 111, 103, 101, 104, 111>>
\* "abc"
Abc == <<97, 98, 99>>
\* "Password1"
Password1 == <<80, 97, 115, 115, 119, 111, 114, 100, 49>>
\* ""
Empty == <<>>
\* "PASSWORD123"
PASSWORD123 == <<80, 65, 83, 83, 87, 79, 82, 68, 49, 50, 51>>

\* the inputs of validate() in Spec and SpecConc
Passwords == {Hogehogeho, Abc, Password1, Empty, PASSWORD123}

\* 'h', 'P', '1', '-', and the byte 0xE9 as a signed char
Alphabet == {104, 80, 49, 45, -23}
\* "", "hogehog" (7 chars), "Passwor" (7 chars), "PASSWORD" (8 chars)
Prefixes == {<<>>, <<104, 111, 103, 101, 104, 111, 103>>,
             <<80, 97, 115, 115, 119, 111, 114>>,
             <<80, 65, 83, 83, 87, 79, 82, 68>>}
Tails == UNION {[1..n -> Alphabet] : n \in 0..MaxTail}
\* the inputs of validate() in SpecMain
MainInputs == Passwords \cup {p \o t : p \in Prefixes, t \in Tails}

-----------------------------------------------------------------------------
(* The example rules of main() *)

MsgLength == "password length must be greater than 8 chars."
MsgDigit  == "password must contain a digit."
MsgCase   == "password must contain both of lower and upper case."
Msgs == {MsgLength, MsgDigit, MsgCase}

\* std::string::npos, size_t(-1), kept as -1
npos == -1
\* the characters of "0123456789"
Digits == 48..57

\* std::string_view::find_first_of: index (from 0) of the first char of s in chars
find_first_of(s, chars) ==
  IF \E i \in 1..Len(s) : s[i] \in chars
    THEN (CHOOSE i \in 1..Len(s) :
            s[i] \in chars /\ \A j \in 1..(i - 1) : s[j] \notin chars) - 1
    ELSE npos

\* static_cast<unsigned char>(ch)
to_uchar(ch) == ch % 256
\* std::islower / std::isupper in the "C" locale (main never calls setlocale)
islower(c) == IF c \in 97..122 THEN 1 ELSE 0
isupper(c) == IF c \in 65..90 THEN 1 ELSE 0
\* pred(fn)(ch): fn(static_cast<unsigned char>(ch)) converted to bool
pred_islower(ch) == islower(to_uchar(ch)) # 0
pred_isupper(ch) == isupper(to_uchar(ch)) # 0
\* std::any_of(password.begin(), password.end(), pred(std::islower))
any_of_islower(s) == \E i \in 1..Len(s) : pred_islower(s[i])
\* std::any_of(password.begin(), password.end(), pred(std::isupper))
any_of_isupper(s) == \E i \in 1..Len(s) : pred_isupper(s[i])

\* mutant: the length rule with >= for >
length_rule_ge(s) == Len(s) >= 8
length_rule(s) == Len(s) > 8
digit_rule(s) == find_first_of(s, Digits) # npos
case_rule(s) ==
  LET has_lower == any_of_islower(s)
      has_upper == any_of_isupper(s)
  IN has_lower /\ has_upper

\* the predicate functors a caller passes to rule()
Preds == {"length", "digit", "case"}
\* rule(password) for the functor named p
call_pred(p, s) ==
  CASE p = "length" -> length_rule(s)
    [] p = "digit"  -> digit_rule(s)
    [] p = "case"   -> case_rule(s)

-----------------------------------------------------------------------------
(* mitama::result *)

success == [tag |-> "Ok"]
failure(e) == [tag |-> "Err", err |-> e]
is_ok(r) == r.tag = "Ok"
is_err(r) == r.tag = "Err"
unwrap_err(r) == r.err

-----------------------------------------------------------------------------
(* password_validator *)

\* the object main() declares, and a second object a by-value return would create
This == "validator"
Copy == "copy"
Objs == {This, Copy}
\* no rule() call has returned yet
NoRef == "noref"
\* no validate() call has returned yet
NoResult == [tag |-> "None"]
\* the callers of SpecConc
Threads == {1, 2}
\* the rules main() registers, as (functor, message) pairs
ExampleRules == {<<"length", MsgLength>>, <<"digit", MsgDigit>>, <<"case", MsgCase>>}

\* the closure rule() stores: captures msg and rule
closure(p, m) == [rule |-> p, msg |-> m]
\* mutant: the closure with its two branches swapped
invoke_swapped(v, s) == IF call_pred(v.rule, s) THEN failure(v.msg) ELSE success
\* the closure's call operator
invoke(v, s) == IF call_pred(v.rule, s) THEN success ELSE failure(v.msg)

\* mutant: the closure inserted at validators.begin()
emplace_front(vs, v) == <<v>> \o vs
\* validators.emplace_back(closure)
emplace_back(vs, v) == Append(vs, v)

\* std::transform(validators.begin(), validators.end(), back_inserter(results), ...)
transform_all(vs, s) == [i \in 1..Len(vs) |-> invoke(vs[i], s)]
\* mutant: std::any_of for std::all_of
any_of_ok(rs) == \E i \in 1..Len(rs) : is_ok(rs[i])
\* std::all_of(results.begin(), results.end(), is_ok)
all_of_ok(rs) == \A i \in 1..Len(rs) : is_ok(rs[i])
\* mutant: only the first error is kept
filter_first_err(rs) == SubSeq(SelectSeq(rs, is_err), 1, 1)
\* results | views::filter(&validate_result::is_err)
filter_err(rs) == SelectSeq(rs, is_err)
\* mutant: the messages inserted at the front of error_messages
collect_reversed(errors) ==
  [i \in 1..Len(errors) |-> unwrap_err(errors[Len(errors) + 1 - i])]
\* std::transform(errors.begin(), errors.end(), back_inserter(error_messages), unwrap_err)
collect(errors) == [i \in 1..Len(errors) |-> unwrap_err(errors[i])]

\* the part of validate() after the first std::transform
aggregate(rs) ==
  IF all_of_ok(rs)
    THEN success
    ELSE LET errors == filter_err(rs)
             error_messages == collect(errors)
         IN failure(error_messages)

\* validate(password) on a validator whose member is vs
validate(vs, s) == aggregate(transform_all(vs, s))

-----------------------------------------------------------------------------
(* Spec: one caller, rule() and validate() calls in any order *)

\* mutant: rule() declared `auto` instead of `auto &`, returning a copy of *this
RuleByValue(self, p, m) ==
  /\ validators' = [o \in Objs |->
                      IF o \in {self, Copy}
                        THEN emplace_back(validators[self], closure(p, m))
                        ELSE validators[o]]
  /\ ret' = Copy
  /\ registered' = Append(registered, closure(p, m))
  /\ op' = "rule"
  /\ since' = since + 1
  /\ between' = -1
  /\ UNCHANGED <<password, res>>

\* self.rule(p, m): emplace the closure, return *this
Rule(self, p, m) ==
  /\ validators' = [validators EXCEPT ![self] = emplace_back(@, closure(p, m))]
  /\ ret' = self
  /\ registered' = Append(registered, closure(p, m))
  /\ op' = "rule"
  /\ since' = since + 1
  /\ between' = -1
  /\ UNCHANGED <<password, res>>

\* mutant: validate() moves the closures out of `validators`
ValidateConsuming(self, s) ==
  /\ res' = validate(validators[self], s)
  /\ password' = s
  /\ op' = "validate"
  /\ between' = IF res # NoResult /\ password = s THEN since ELSE -1
  /\ since' = 0
  /\ validators' = [validators EXCEPT ![self] = <<>>]
  /\ UNCHANGED <<ret, registered>>

\* self.validate(s)
Validate(self, s) ==
  /\ res' = validate(validators[self], s)
  /\ password' = s
  /\ op' = "validate"
  /\ between' = IF res # NoResult /\ password = s THEN since ELSE -1
  /\ since' = 0
  /\ UNCHANGED <<validators, ret, registered>>

\* validator.rule(p, m) as a statement of its own
RuleCall ==
  /\ Len(registered) < MaxRules
  /\ \E p \in Preds, m \in Msgs : Rule(This, p, m)
  /\ UNCHANGED <<concVars, mainpc>>
\* .rule(p, m) chained on the reference the previous rule() returned
RuleChained ==
  /\ ret # NoRef
  /\ Len(registered) < MaxRules
  /\ \E p \in Preds, m \in Msgs : Rule(ret, p, m)
  /\ UNCHANGED <<concVars, mainpc>>
\* validator.validate(s) as a statement of its own
ValidateCall ==
  /\ \E s \in Passwords : Validate(This, s)
  /\ UNCHANGED <<concVars, mainpc>>
\* .validate(s) chained on the reference the previous rule() returned
ValidateChained ==
  /\ ret # NoRef
  /\ \E s \in Passwords : Validate(ret, s)
  /\ UNCHANGED <<concVars, mainpc>>

ConcInit ==
  /\ pc = [t \in Threads |-> "idle"]
  /\ arg = [t \in Threads |-> <<>>]
  /\ it = [t \in Threads |-> 0]
  /\ results = [t \in Threads |-> <<>>]
  /\ outcome = [t \in Threads |-> NoResult]
  /\ evalLog = [t \in Threads |-> <<>>]

\* the state after `validate::password_validator validator;`
Init ==
  /\ validators = [o \in Objs |-> <<>>]
  /\ ret = NoRef
  /\ registered = <<>>
  /\ password = <<>>
  /\ res = NoResult
  /\ op = "none"
  /\ since = 0
  /\ between = -1
  /\ ConcInit
  /\ mainpc = "length"

Next ==
  \/ RuleCall
  \/ RuleChained
  \/ ValidateCall
  \/ ValidateChained

Spec == Init /\ [][Next]_vars

-----------------------------------------------------------------------------
(* SpecConc: build the validator, then two callers run validate() on it *)

\* validator.rule(p, m) before any validate() call has started
Build ==
  /\ \A t \in Threads : pc[t] = "idle"
  /\ Len(registered) < MaxRules
  /\ \E r \in ExampleRules : Rule(This, r[1], r[2])
  /\ UNCHANGED <<concVars, mainpc>>

\* caller t enters validate(s): `results` is empty, the iterator is validators.begin()
Call(t, s) ==
  /\ pc[t] \in {"idle", "done"}
  /\ pc' = [pc EXCEPT ![t] = "transform"]
  /\ arg' = [arg EXCEPT ![t] = s]
  /\ it' = [it EXCEPT ![t] = 1]
  /\ results' = [results EXCEPT ![t] = <<>>]
  /\ outcome' = [outcome EXCEPT ![t] = NoResult]
  /\ evalLog' = [evalLog EXCEPT ![t] = <<>>]
  /\ UNCHANGED <<validators, seqVars, mainpc>>

\* mutant: `results` is one vector shared by the calls (a static local)
TransformStepShared(t) ==
  /\ pc[t] = "transform"
  /\ it[t] <= Len(validators[This])
  /\ results' = [u \in Threads |->
                   Append(results[t], invoke(validators[This][it[t]], arg[t]))]
  /\ evalLog' = [evalLog EXCEPT ![t] = Append(@, it[t])]
  /\ it' = [it EXCEPT ![t] = @ + 1]
  /\ UNCHANGED <<validators, seqVars, pc, arg, outcome, mainpc>>

\* mutant: the loop stops at the first failing rule
TransformStepShortCircuit(t) ==
  /\ pc[t] = "transform"
  /\ it[t] <= Len(validators[This])
  /\ results' = [results EXCEPT ![t] = Append(@, invoke(validators[This][it[t]], arg[t]))]
  /\ evalLog' = [evalLog EXCEPT ![t] = Append(@, it[t])]
  /\ it' = [it EXCEPT ![t] =
              IF is_err(invoke(validators[This][it[t]], arg[t]))
                THEN Len(validators[This]) + 1
                ELSE @ + 1]
  /\ UNCHANGED <<validators, seqVars, pc, arg, outcome, mainpc>>

\* one iteration of the first std::transform: results.push_back(validator(password))
TransformStep(t) ==
  /\ pc[t] = "transform"
  /\ it[t] <= Len(validators[This])
  /\ results' = [results EXCEPT ![t] = Append(@, invoke(validators[This][it[t]], arg[t]))]
  /\ evalLog' = [evalLog EXCEPT ![t] = Append(@, it[t])]
  /\ it' = [it EXCEPT ![t] = @ + 1]
  /\ UNCHANGED <<validators, seqVars, pc, arg, outcome, mainpc>>

\* the iterator reached validators.end()
TransformEnd(t) ==
  /\ pc[t] = "transform"
  /\ it[t] > Len(validators[This])
  /\ pc' = [pc EXCEPT ![t] = "aggregate"]
  /\ UNCHANGED <<validators, seqVars, arg, it, results, outcome, evalLog, mainpc>>

\* the rest of validate(), which reads only the local `results`, and the return
Return(t) ==
  /\ pc[t] = "aggregate"
  /\ outcome' = [outcome EXCEPT ![t] = aggregate(results[t])]
  /\ pc' = [pc EXCEPT ![t] = "done"]
  /\ results' = [results EXCEPT ![t] = <<>>]
  /\ it' = [it EXCEPT ![t] = 0]
  /\ UNCHANGED <<validators, seqVars, arg, evalLog, mainpc>>

\* a step of caller t inside validate()
Step(t) == TransformStep(t) \/ TransformEnd(t) \/ Return(t)

NextConc ==
  \/ Build
  \/ \E t \in Threads, s \in Passwords : Call(t, s)
  \/ \E t \in Threads : TransformStep(t)
  \/ \E t \in Threads : TransformEnd(t)
  \/ \E t \in Threads : Return(t)

SpecConc == Init /\ [][NextConc]_vars

\* a caller inside validate() keeps running: nothing in validate() blocks
FairSpecConc == SpecConc /\ \A t \in Threads : WF_vars(Step(t))

-----------------------------------------------------------------------------
(* SpecMain: main() *)

\* validator.rule(<length functor>, "password length must be greater than 8 chars.")
MainRuleLength ==
  /\ mainpc = "length"
  /\ Rule(This, "length", MsgLength)
  /\ mainpc' = "digit"
  /\ UNCHANGED concVars

\* .rule(<digit functor>, "password must contain a digit.")
MainRuleDigit ==
  /\ mainpc = "digit"
  /\ Rule(ret, "digit", MsgDigit)
  /\ mainpc' = "case"
  /\ UNCHANGED concVars

\* .rule(<case functor>, "password must contain both of lower and upper case.")
MainRuleCase ==
  /\ mainpc = "case"
  /\ Rule(ret, "case", MsgCase)
  /\ mainpc' = "validate"
  /\ UNCHANGED concVars

\* .validate(s); main() passes "hogehogeho", the model any input of MainInputs
MainValidate ==
  /\ mainpc = "validate"
  /\ \E s \in MainInputs : Validate(ret, s)
  /\ mainpc' = "print"
  /\ UNCHANGED concVars

\* std::cout << res << std::endl; return 0;
MainPrint ==
  /\ mainpc = "print"
  /\ mainpc' = "done"
  /\ UNCHANGED <<validators, seqVars, concVars>>

NextMain ==
  \/ MainRuleLength
  \/ MainRuleDigit
  \/ MainRuleCase
  \/ MainValidate
  \/ MainPrint

SpecMain == Init /\ [][NextMain]_vars

-----------------------------------------------------------------------------
(* Properties *)

\* the rules of vs that s fails, as indices
Failing(vs, s) == {i \in 1..Len(vs) : ~call_pred(vs[i].rule, s)}

\* the messages of the rules of vs that s fails, in the order of vs
RECURSIVE FailingMsgs(_, _)
FailingMsgs(vs, s) ==
  IF vs = <<>>
    THEN <<>>
    ELSE IF call_pred(Head(vs).rule, s)
           THEN FailingMsgs(Tail(vs), s)
           ELSE <<Head(vs).msg>> \o FailingMsgs(Tail(vs), s)

\* the message list of an outcome, empty for Ok
MsgsOf(r) == IF r.tag = "Err" THEN r.err ELSE <<>>

IsPrefix(a, b) == Len(a) <= Len(b) /\ SubSeq(b, 1, Len(a)) = a

Iota(n) == [i \in 1..n |-> i]

\* the outcome of the last call is current: validate() ran last
Validated == op = "validate"

\* C1: validate returns Ok iff every registered predicate holds for the
\* candidate; with no rule registered it returns Ok for every candidate.
C1_OkIffAllPass ==
  Validated =>
    /\ is_ok(res) <=>
         \A i \in 1..Len(validators[This]) :
           call_pred(validators[This][i].rule, password)
    /\ validators[This] = <<>> => res = success

\* a validate call on three rules that the candidate all passes, and so Ok
C1_Witness ==
  /\ Validated
  /\ Len(validators[This]) = 3
  /\ Failing(validators[This], password) = {}
  /\ is_ok(res)

\* C2: the messages of an Err are exactly the messages of the failing rules,
\* in registration order, one per failing rule, none from a passing rule.
C2_ErrMessagesExact ==
  (Validated /\ is_err(res)) =>
    /\ res.err = FailingMsgs(validators[This], password)
    /\ Len(res.err) = Cardinality(Failing(validators[This], password))

\* an Err of two failing rules with the same message text, a passing rule
\* registered between them
C2_Witness ==
  /\ Validated
  /\ is_err(res)
  /\ Len(validators[This]) = 3
  /\ Failing(validators[This], password) = {1, 3}
  /\ validators[This][1].msg = validators[This][3].msg
  /\ Len(res.err) = 2

\* C3: an outcome is Ok without payload or Err with one or more messages.
C3_ErrNeverEmpty ==
  Validated =>
    \/ res = success
    \/ /\ DOMAIN res = {"tag", "err"}
       /\ res.tag = "Err"
       /\ Len(res.err) >= 1

\* an Err with a single message out of three rules
C3_Witness ==
  /\ Validated
  /\ Len(validators[This]) = 3
  /\ is_err(res)
  /\ Len(res.err) = 1

\* C4: a validate call leaves the rule list as it was, and a second validate
\* call with the same candidate and no rule() call between returns the same
\* outcome.
C4_ValidatePure ==
  [][/\ op' = "validate" => validators' = validators
     /\ between' = 0 => res' = res]_vars

\* the second of two validate calls with the same candidate, returning Err
C4_Witness ==
  /\ Validated
  /\ between = 0
  /\ is_err(res)
  /\ Len(validators[This]) >= 2

\* C5: rule() appends exactly one closure at the end, leaves the earlier ones
\* in place and returns the same validator, so the rule list is the sequence
\* of registered rules in call order; nothing removes or reorders a rule.
C5_RuleAppends ==
  /\ [](/\ validators[This] = registered
        /\ ret \in {NoRef, This}
        /\ validators[Copy] = <<>>)
  /\ [][/\ IsPrefix(validators[This], validators'[This])
        /\ op' = "rule" /\ registered' # registered =>
             /\ Len(validators'[This]) = Len(validators[This]) + 1
             /\ validators'[This][Len(validators'[This])] =
                  registered'[Len(registered')]]_vars

\* three rule() calls have returned, the last one a different rule from the first
C5_Witness ==
  /\ op = "rule"
  /\ ret = This
  /\ Len(validators[This]) = 3
  /\ validators[This][1] # validators[This][3]
  /\ validators[This] = registered

\* C6: with the three example rules, the outcome is Ok iff the candidate is
\* longer than 8, has a character in '0'..'9', a lowercase and an uppercase
\* letter.
C6_ExampleOkIff ==
  mainpc \in {"print", "done"} =>
    (is_ok(res) <=>
       /\ Len(password) > 8
       /\ \E i \in 1..Len(password) : password[i] \in 48..57
       /\ \E i \in 1..Len(password) : password[i] \in 97..122
       /\ \E i \in 1..Len(password) : password[i] \in 65..90)

\* main() has validated "Password1" and got Ok
C6_Witness ==
  /\ mainpc = "done"
  /\ password = Password1
  /\ res = success

\* the checks of the example rules a candidate fails, as messages in
\* registration order
ExampleFailures(s) ==
  (IF Len(s) > 8 THEN <<>> ELSE <<MsgLength>>)
    \o (IF \E i \in 1..Len(s) : s[i] \in 48..57 THEN <<>> ELSE <<MsgDigit>>)
    \o (IF /\ \E i \in 1..Len(s) : s[i] \in 97..122
           /\ \E i \in 1..Len(s) : s[i] \in 65..90
          THEN <<>> ELSE <<MsgCase>>)

\* C7: with the three example rules, a failing candidate yields the messages
\* of its failed checks in the order length, digit, case: "hogehogeho" the
\* digit and case messages, "abc" and "" all three, "PASSWORD123" the case
\* message.
C7_ExampleErrMessages ==
  mainpc \in {"print", "done"} =>
    /\ is_err(res) => res.err = ExampleFailures(password)
    /\ password = Hogehogeho => res = failure(<<MsgDigit, MsgCase>>)
    /\ password \in {Abc, Empty} => res = failure(<<MsgLength, MsgDigit, MsgCase>>)
    /\ password = PASSWORD123 => res = failure(<<MsgCase>>)

\* main() has validated "hogehogeho" and got the digit and the case message
C7_Witness ==
  /\ mainpc = "done"
  /\ password = Hogehogeho
  /\ res = failure(<<MsgDigit, MsgCase>>)

\* the locals of caller t's validate() call and the value returned to it
LocalsOf(t) == <<pc[t], arg[t], it[t], results[t], outcome[t], evalLog[t]>>

\* C8: under every interleaving of validate calls on a built validator, each
\* call returns what it returns when run alone, the rule list stays
\* unchanged, and no step of one call writes what another call owns.
C8_ConcurrentValidateSafe ==
  /\ [](\A t \in Threads :
          pc[t] = "done" => outcome[t] = validate(validators[This], arg[t]))
  /\ [][(\E t \in Threads : pc[t] # "idle") => validators' = validators]_vars
  /\ [][\A t, u \in Threads :
          (t # u /\ LocalsOf(t)' # LocalsOf(t)) => LocalsOf(u)' = LocalsOf(u)]_vars

\* caller 1 has returned Err while caller 2 is in the middle of the loop of
\* its own call on another candidate
C8_Witness ==
  /\ Len(validators[This]) = 3
  /\ pc[1] = "done"
  /\ is_err(outcome[1])
  /\ pc[2] = "transform"
  /\ it[2] = 2
  /\ arg[2] # arg[1]
  /\ is_ok(results[2][1])

\* C9: a validate call invokes every registered closure once, in registration
\* order, also after a failing one, reports every failure, and terminates.
C9_EveryRuleEvaluatedOnce ==
  /\ [](\A t \in Threads :
          pc[t] \in {"aggregate", "done"} =>
            evalLog[t] = Iota(Len(validators[This])))
  /\ [](\A t \in Threads :
          pc[t] = "done" =>
            MsgsOf(outcome[t]) = FailingMsgs(validators[This], arg[t]))
  /\ \A t \in Threads : (pc[t] = "transform") ~> (pc[t] = "done")

\* a finished call whose first rule failed, whose later rules were invoked
\* and whose last rule failed too
C9_Witness ==
  \E t \in Threads :
    /\ pc[t] = "done"
    /\ Len(validators[This]) = 3
    /\ evalLog[t] = <<1, 2, 3>>
    /\ Failing(validators[This], arg[t]) = {1, 3}
    /\ Len(outcome[t].err) = 2

\* C10: a validate call that follows a validate call on the same candidate
\* returns the earlier message list extended: with one rule() call between,
\* by that rule's message if the candidate fails it and by nothing if it
\* passes; so an Err never becomes Ok and earlier messages keep their place.
C10_RuleExtendsOutcome ==
  [][/\ between' = 1 =>
          LET r == validators'[This][Len(validators'[This])]
          IN MsgsOf(res') = IF call_pred(r.rule, password')
                              THEN MsgsOf(res)
                              ELSE Append(MsgsOf(res), r.msg)
     /\ between' >= 0 =>
          /\ IsPrefix(MsgsOf(res), MsgsOf(res'))
          /\ is_err(res) => is_err(res')]_vars

\* validate, rule(), validate on one candidate: the second outcome has two
\* messages, the last one from the rule added between the calls
C10_Witness ==
  /\ Validated
  /\ between = 1
  /\ Len(validators[This]) = 3
  /\ is_err(res)
  /\ Len(res.err) = 2
  /\ 3 \in Failing(validators[This], password)

====
